---- MODULE Spec2Model ----
(***************************************************************************)
(* Model of @all_thing_downloader_bot.py: the per-conversation job         *)
(* registry (store_new_job / pop_job), the two handlers handle_text and    *)
(* on_download_choice with their suspension points (every await), the      *)
(* executor thread of ytdlp_extract with the process working directory,    *)
(* and the call of the delivery procedure.                                 *)
(***************************************************************************)
EXTENDS Integers, Sequences, FiniteSets, TLC

\* The registry capacity of the source (the literal 50 of store_new_job).
MAX_JOBS == 50
\* Capacity passed to store_new_job by the handler model: the same eviction
\* code, with the capacity scaled down so that eviction happens within
\* MaxDirs messages.  The registry-only specification uses MAX_JOBS itself.
Capacity == 1
\* Size of the modelled range of secrets.token_urlsafe(8).
NTokens == 2
\* Number of message events that reach tempfile.TemporaryDirectory().
MaxDirs == 2
\* Number of selection (callback query) events.
MaxSel == 2
\* Registry-only specification: operations applied to a pre-filled registry
\* and the number of tokens beyond MAX_JOBS the generator may return.
RegSteps == 3
RegExtra == 2

Handlers == {1, 2}
Tokens == 1..NTokens
Dirs == 1..MaxDirs
\* The working directory the process was started in.
OrigCwd == 0
\* No directory: nothing written.
NoDir == -1

VARIABLES
    store,        \* user_data["dl_store"]: insertion-ordered <<[token, url, tmpdir]>>
    cleanups,     \* per TemporaryDirectory: number of cleanup() calls made on it
    cwd,          \* the process-wide working directory (OrigCwd or a scratch dir)
    written,      \* per job (by scratch dir): the directory its download was written into
    hs,           \* per handler task: position and locals
    nextDir,      \* next TemporaryDirectory to be created
    nSel,         \* selection events received so far
    inserted,     \* history: jobs in the order store_new_job registered them
    evicted,      \* history: jobs removed by the eviction loop
    overwritten,  \* history: jobs dropped because their key was assigned again
    taken,        \* history: the tokens for which pop_job has returned a job
    fetches,      \* history: per job, number of download extractions started
    regOps,       \* registry-only specification: operations applied so far
    dl,           \* the delivery procedure's frame: position, attempt, event log
    fn            \* menu and format construction: inputs and what was built

vars == <<store, cleanups, cwd, written, hs, nextDir, nSel, inserted, evicted,
          overwritten, taken, fetches, regOps, dl, fn>>

----------------------------------------------------------------------------
(* Job registry *)

NoJob == [url |-> 0, tmpdir |-> 0]

Keys(st) == {st[i].token : i \in 1..Len(st)}

IndexOf(st, token) == CHOOSE i \in 1..Len(st) : st[i].token = token

JobDirs(st) == {st[i].tmpdir : i \in 1..Len(st)}

\* store[token] = {...}: a new key goes last, an existing key keeps its place
\* and gets the new value.
DictSet(st, token, job) ==
    LET e == [token |-> token, url |-> job.url, tmpdir |-> job.tmpdir]
    IN  IF token \in Keys(st)
        THEN [st EXCEPT ![IndexOf(st, token)] = e]
        ELSE Append(st, e)

\* Mutant of store_new_job: the eviction loop leaves one entry too many.
store_new_job_keeps_one_more(st, token, job, cap) ==
    LET s1 == DictSet(st, token, job)
        n  == Len(s1)
        k  == IF n > cap + 1 THEN n - cap - 1 ELSE 0
    IN  [store |-> SubSeq(s1, k + 1, n), evicted |-> SubSeq(s1, 1, k)]

\* store_new_job with the token the generator returned; cap is the literal 50.
\* Result: the registry afterwards and the entries the loop popped (each of
\* which had cleanup() called on its tmpdir).
store_new_job(st, token, job, cap) ==
    LET s1 == DictSet(st, token, job)
        n  == Len(s1)
        k  == IF n > cap THEN n - cap ELSE 0
    IN  [store |-> SubSeq(s1, k + 1, n), evicted |-> SubSeq(s1, 1, k)]

\* Mutant of pop_job: a miss falls back to the oldest entry instead of None.
pop_job_miss_takes_oldest(st, token) ==
    LET i == IF token \in Keys(st) THEN IndexOf(st, token) ELSE 1
    IN  IF st = <<>>
        THEN [store |-> st, job |-> NoJob]
        ELSE [store |-> SubSeq(st, 1, i - 1) \o SubSeq(st, i + 1, Len(st)),
              job   |-> [url |-> st[i].url, tmpdir |-> st[i].tmpdir]]

\* store.pop(token, None)
pop_job(st, token) ==
    IF token \in Keys(st)
    THEN LET i == IndexOf(st, token)
         IN  [store |-> SubSeq(st, 1, i - 1) \o SubSeq(st, i + 1, Len(st)),
              job   |-> [url |-> st[i].url, tmpdir |-> st[i].tmpdir]]
    ELSE [store |-> st, job |-> NoJob]

\* The job a put drops without evicting it (key already present).
Dropped(st, token) ==
    IF token \in Keys(st) THEN {st[IndexOf(st, token)].tmpdir} ELSE {}

SeqDirs(s) == {s[i].tmpdir : i \in 1..Len(s)}

\* cleanup() called once on each directory of D.
Cleanup(cl, D) == [d \in DOMAIN cl |-> IF d \in D THEN cl[d] + 1 ELSE cl[d]]

Exists(d) == d = OrigCwd \/ cleanups[d] = 0

\* target_dir.iterdir(): the jobs whose download was written into directory d.
FilesIn(d) == {j \in DOMAIN written : written[j] = d}

----------------------------------------------------------------------------
(* Registry-only specification: store_new_job and pop_job at capacity 50 *)

RegDirs == 1..(MAX_JOBS + RegSteps)
RegTokens == 1..(MAX_JOBS + RegExtra)

\* No delivery in progress and nothing being built: the value of the two
\* frames in the specifications that are not about them.
NoDelivery == [pc |-> "none"]

NoInput == [phase |-> "none"]

Idle == [pc |-> "idle", url |-> 0, dir |-> 0, tok |-> 0, data |-> <<>>,
         tpc |-> "none",
         saved |-> 0, res |-> "none"]

\* A registry holding the first n jobs, as n calls of store_new_job with
\* distinct tokens leave it (n <= 50: no eviction yet).
RegInit ==
    \E n \in 0..MAX_JOBS :
        /\ store = [i \in 1..n |-> [token |-> i, url |-> i, tmpdir |-> i]]
        /\ inserted = [i \in 1..n |-> i]
        /\ nextDir = n + 1
    /\ cleanups = [d \in RegDirs |-> 0]
    /\ cwd = OrigCwd
    /\ written = [d \in {OrigCwd} |-> NoDir]
    /\ hs = [h \in Handlers |-> Idle]
    /\ nSel = 0
    /\ evicted = {}
    /\ overwritten = {}
    /\ taken = {}
    /\ fetches = [d \in {OrigCwd} |-> 0]
    /\ regOps = 0
    /\ dl = NoDelivery
    /\ fn = NoInput

\* Tokens tried by the registry-only specification: the oldest and the newest
\* live key, and the tokens not in the registry that are nearest to them.
RegChoice ==
    LET live == Keys(store)
        free == RegTokens \ live
    IN  (IF store = <<>> THEN {} ELSE {store[1].token, store[Len(store)].token})
        \cup (IF free = {} THEN {}
              ELSE {CHOOSE t \in free : \A u \in free : t <= u,
                    CHOOSE t \in free : \A u \in free : t >= u})

Reg_store_new_job ==
    /\ regOps < RegSteps
    /\ \E token \in RegChoice :
        LET job == [url |-> nextDir, tmpdir |-> nextDir]
            r   == store_new_job(store, token, job, MAX_JOBS)
        IN  /\ store' = r.store
            /\ cleanups' = Cleanup(cleanups, SeqDirs(r.evicted))
            /\ evicted' = evicted \cup SeqDirs(r.evicted)
            /\ overwritten' = overwritten \cup Dropped(store, token)
            /\ inserted' = Append(inserted, nextDir)
            /\ nextDir' = nextDir + 1
    /\ regOps' = regOps + 1
    /\ UNCHANGED <<dl, fn>>
    /\ UNCHANGED <<cwd, written, hs, nSel, taken, fetches>>

Reg_pop_job ==
    /\ regOps < RegSteps
    /\ \E token \in RegChoice :
        LET r == pop_job(store, token)
        IN  /\ store' = r.store
            /\ taken' = IF r.job = NoJob THEN taken ELSE taken \cup {token}
    /\ regOps' = regOps + 1
    /\ UNCHANGED <<dl, fn>>
    /\ UNCHANGED <<cleanups, cwd, written, hs, nextDir, nSel, inserted, evicted,
                   overwritten, fetches>>

RegNext == Reg_store_new_job \/ Reg_pop_job

SpecRegistry == RegInit /\ [][RegNext]_vars

----------------------------------------------------------------------------
(* Handler tasks.  One action per resumption: from the await the task is    *)
(* suspended at, through the synchronous code, to the next await or exit.   *)

Init ==
    /\ store = <<>>
    /\ cleanups = [d \in Dirs |-> 0]
    /\ cwd = OrigCwd
    /\ written = [d \in Dirs |-> NoDir]
    /\ hs = [h \in Handlers |-> Idle]
    /\ nextDir = 1
    /\ nSel = 0
    /\ inserted = <<>>
    /\ evicted = {}
    /\ overwritten = {}
    /\ taken = {}
    /\ fetches = [d \in Dirs |-> 0]
    /\ regOps = 0
    /\ dl = NoDelivery
    /\ fn = NoInput

Outcomes == {"ok", "raise"}

\* The task a new update is dispatched to: the tasks are interchangeable, so
\* the lowest idle one stands for any of them.
FreeTask(h) == hs[h].pc = "idle" /\ \A g \in Handlers : hs[g].pc = "idle" => h <= g

Set(h, r) == hs' = [hs EXCEPT ![h] = r]
Goto(h, p) == Set(h, [hs[h] EXCEPT !.pc = p])

UnchangedRegistry == UNCHANGED <<store, inserted, evicted, overwritten, taken>>
UnchangedDisk == UNCHANGED <<cleanups, cwd, written>>
UnchangedHistory == UNCHANGED <<fetches, regOps, dl, fn>>

(* ytdlp_extract: run_ydl in an executor thread *)

\* loop.run_in_executor(None, run_ydl): the task suspends, the thread starts.
\* u and d are the url and target_dir arguments of ytdlp_extract.
StartExtract(h, p, u, d) ==
    Set(h, [hs[h] EXCEPT !.pc = p, !.url = u, !.dir = d, !.tpc = "getcwd",
                         !.res = "none"])

\* cwd = os.getcwd(): raises if the working directory has been deleted.
T_getcwd(h) ==
    /\ hs[h].tpc = "getcwd"
    /\ IF Exists(cwd)
       THEN Set(h, [hs[h] EXCEPT !.tpc = "chdir", !.saved = cwd])
       ELSE Set(h, [hs[h] EXCEPT !.tpc = "ret", !.res = "raise"])
    /\ UNCHANGED <<store, cleanups, cwd, written, nextDir, nSel, inserted, evicted,
                   overwritten, taken, fetches, regOps, dl, fn>>

\* os.chdir(target_dir): raises if the scratch directory no longer exists.
T_chdir(h) ==
    /\ hs[h].tpc = "chdir"
    /\ IF Exists(hs[h].dir)
       THEN /\ cwd' = hs[h].dir
            /\ Set(h, [hs[h] EXCEPT !.tpc = "extract"])
       ELSE /\ cwd' = cwd
            /\ Set(h, [hs[h] EXCEPT !.tpc = "restore", !.res = "raise"])
    /\ UNCHANGED <<store, cleanups, written, nextDir, nSel, inserted, evicted,
                   overwritten, taken, fetches, regOps, dl, fn>>

\* ydl.extract_info(url, download=download): outtmpl is relative, so a
\* download writes its file into the working directory of the process.
T_extract(h) ==
    /\ hs[h].tpc = "extract"
    /\ \E out \in {"info", "none", "raise"} :
        IF hs[h].pc = "oc_fetch" /\ out = "info"
        THEN IF Exists(cwd)
             THEN /\ written' = [written EXCEPT ![hs[h].dir] = cwd]
                  /\ Set(h, [hs[h] EXCEPT !.tpc = "restore", !.res = "info"])
             ELSE /\ written' = written
                  /\ Set(h, [hs[h] EXCEPT !.tpc = "restore", !.res = "raise"])
        ELSE /\ written' = written
             /\ Set(h, [hs[h] EXCEPT !.tpc = "restore", !.res = out])
    /\ UNCHANGED <<store, cleanups, cwd, nextDir, nSel, inserted, evicted,
                   overwritten, taken, fetches, regOps, dl, fn>>

\* finally: os.chdir(cwd), which raises if the saved directory was deleted.
T_restore(h) ==
    /\ hs[h].tpc = "restore"
    /\ IF Exists(hs[h].saved)
       THEN /\ cwd' = hs[h].saved
            /\ Set(h, [hs[h] EXCEPT !.tpc = "ret"])
       ELSE /\ cwd' = cwd
            /\ Set(h, [hs[h] EXCEPT !.tpc = "ret", !.res = "raise"])
    /\ UNCHANGED <<store, cleanups, written, nextDir, nSel, inserted, evicted,
                   overwritten, taken, fetches, regOps, dl, fn>>

(* handle_text *)

\* A message arrives.  Without a URL the handler replies and returns; with
\* one it awaits the "analysing" status message.
HT_Start(h) ==
    /\ FreeTask(h)
    /\ nextDir <= MaxDirs
    /\ \E hasUrl \in BOOLEAN :
        Goto(h, IF hasUrl THEN "ht_status" ELSE "ht_nourl")
    /\ UNCHANGED <<nextDir, nSel>>
    /\ UnchangedRegistry /\ UnchangedDisk /\ UnchangedHistory

\* reply_text("please send a link") returns or raises: the handler is over.
HT_NoUrl(h) ==
    /\ hs[h].pc = "ht_nourl"
    /\ Set(h, Idle)
    /\ UNCHANGED <<nextDir, nSel>>
    /\ UnchangedRegistry /\ UnchangedDisk /\ UnchangedHistory

\* The status message is sent (or raises, ending the handler); then the
\* scratch directory is created and the probe starts.
HT_Status(h) ==
    /\ hs[h].pc = "ht_status"
    /\ \E o \in Outcomes :
        IF o = "ok"
        THEN /\ nextDir <= MaxDirs
             /\ StartExtract(h, "ht_probe", nextDir, nextDir)
             /\ nextDir' = nextDir + 1
        ELSE /\ Set(h, Idle)
             /\ nextDir' = nextDir
    /\ UNCHANGED nSel
    /\ UnchangedRegistry /\ UnchangedDisk /\ UnchangedHistory

\* The probe returned.  No info: await the error edit of line 190.  It
\* raised: await the error edit of the except block.  Info: register the job
\* with a token from the generator and await the menu edit.
HT_Probed(h) ==
    /\ hs[h].pc = "ht_probe" /\ hs[h].tpc = "ret"
    /\ LET d == hs[h].dir IN
       CASE hs[h].res = "none" ->
              /\ Set(h, [hs[h] EXCEPT !.pc = "ht_noinfo_edit", !.tpc = "none"])
              /\ UnchangedRegistry /\ UNCHANGED cleanups
         [] hs[h].res = "raise" ->
              /\ Set(h, [hs[h] EXCEPT !.pc = "ht_except_edit", !.tpc = "none"])
              /\ UnchangedRegistry /\ UNCHANGED cleanups
         [] OTHER ->
              \E token \in Tokens :
                LET r == store_new_job(store, token, [url |-> hs[h].url, tmpdir |-> d], Capacity)
                IN  /\ store' = r.store
                    /\ cleanups' = Cleanup(cleanups, SeqDirs(r.evicted))
                    /\ UNCHANGED <<inserted, evicted, overwritten, taken>>
                    /\ Set(h, [hs[h] EXCEPT !.pc = "ht_menu_edit", !.tpc = "none",
                                            !.tok = token])
    /\ UNCHANGED <<cwd, written, nextDir, nSel>>
    /\ UnchangedHistory

\* The edit of line 190 returned: cleanup and return.  It raised: the except
\* block awaits its own edit.
HT_NoInfoEdit(h) ==
    /\ hs[h].pc = "ht_noinfo_edit"
    /\ \E o \in Outcomes :
        IF o = "ok"
        THEN /\ cleanups' = Cleanup(cleanups, {hs[h].dir})
             /\ Set(h, Idle)
        ELSE /\ cleanups' = cleanups
             /\ Goto(h, "ht_except_edit")
    /\ UNCHANGED <<cwd, written, nextDir, nSel, fetches, regOps, dl, fn>>
    /\ UnchangedRegistry

\* The menu edit returned: the handler is over, the job stays registered.
\* It raised: the except block awaits its edit.
HT_MenuEdit(h) ==
    /\ hs[h].pc = "ht_menu_edit"
    /\ \E o \in Outcomes :
        IF o = "ok" THEN Set(h, Idle) ELSE Goto(h, "ht_except_edit")
    /\ UNCHANGED <<nextDir, nSel>>
    /\ UnchangedRegistry /\ UnchangedDisk /\ UnchangedHistory

\* except Exception: the edit of line 228 returned, so tmpdir.cleanup() runs;
\* it raised, so the exception leaves the handler before the cleanup.
HT_ExceptEdit(h) ==
    /\ hs[h].pc = "ht_except_edit"
    /\ \E o \in Outcomes :
        cleanups' = IF o = "ok" THEN Cleanup(cleanups, {hs[h].dir}) ELSE cleanups
    /\ Set(h, Idle)
    /\ UNCHANGED <<cwd, written, nextDir, nSel, fetches, regOps, dl, fn>>
    /\ UnchangedRegistry

(* on_download_choice *)

\* query.data as its '|'-separated fields.
Modes == {"best", "h720"}
Payloads ==
    UNION {{<<"dl", t, m>>, <<"dl", t>>, <<"xx", t, m>>, <<"dl", t, m, "x">>} :
           <<t, m>> \in Tokens \X Modes}

\* str.split("|", maxsplit): at most maxsplit + 1 parts, the last one being
\* the whole remainder, separators included.  A part is given as the fields
\* it spans.
Split(fields, maxsplit) ==
    IF Len(fields) <= maxsplit + 1
    THEN [i \in 1..Len(fields) |-> <<fields[i]>>]
    ELSE [i \in 1..(maxsplit + 1) |->
            IF i <= maxsplit THEN <<fields[i]>> ELSE SubSeq(fields, i, Len(fields))]

\* len(data) != 3 or data[0] != "dl"
Malformed(data) == Len(data) # 3 \/ data[1] # <<"dl">>

\* A button press arrives; the handler awaits query.answer().
OC_Start(h) ==
    /\ FreeTask(h)
    /\ nSel < MaxSel
    /\ nSel' = nSel + 1
    /\ \E p \in Payloads : Set(h, [Idle EXCEPT !.pc = "oc_answer", !.data = p])
    /\ UNCHANGED nextDir
    /\ UnchangedRegistry /\ UnchangedDisk /\ UnchangedHistory

\* query.answer() returned: parse the payload, take the job, and await the
\* edit that reports the outcome.  It raised: the handler is over.
OC_Answered(h) ==
    /\ hs[h].pc = "oc_answer"
    /\ \E o \in Outcomes :
        LET data  == Split(hs[h].data, 2)
            token == data[2][1]
            r     == pop_job(store, token)
        IN  IF o = "raise"
            THEN Set(h, Idle) /\ UNCHANGED <<store, taken>>
            ELSE IF Malformed(data)
            THEN Set(h, [Idle EXCEPT !.pc = "oc_invalid_edit"])
                 /\ UNCHANGED <<store, taken>>
            ELSE IF r.job = NoJob
            THEN /\ Set(h, [Idle EXCEPT !.pc = "oc_expired_edit", !.tok = token])
                 /\ store' = r.store
                 /\ taken' = taken
            ELSE /\ Set(h, [Idle EXCEPT !.pc = "oc_dl_edit", !.tok = token,
                                        !.url = r.job.url,
                                        !.dir = r.job.tmpdir])
                 /\ store' = r.store
                 /\ taken' = taken \cup {token}
    /\ UNCHANGED <<nextDir, nSel, inserted, evicted, overwritten>>
    /\ UnchangedDisk /\ UnchangedHistory

\* The "invalid button data" or the "expired" edit returned or raised.
OC_Rejected(h) ==
    /\ hs[h].pc \in {"oc_invalid_edit", "oc_expired_edit"}
    /\ Set(h, Idle)
    /\ UNCHANGED <<nextDir, nSel>>
    /\ UnchangedRegistry /\ UnchangedDisk /\ UnchangedHistory

\* Mutant of OC_DlEdit: the fetch is given the working directory instead of
\* the job's scratch directory.
OC_DlEdit_fetches_into_cwd(h) ==
    /\ hs[h].pc = "oc_dl_edit"
    /\ \E o \in Outcomes :
        IF o = "ok"
        THEN /\ StartExtract(h, "oc_fetch", hs[h].url, OrigCwd)
             /\ fetches' = [fetches EXCEPT ![hs[h].dir] = @ + 1]
        ELSE /\ Set(h, Idle)
             /\ fetches' = fetches
    /\ UNCHANGED <<nextDir, nSel, regOps, dl, fn>>
    /\ UnchangedRegistry /\ UnchangedDisk

\* The "downloading" edit of line 301, which is before the try: when it
\* raises the handler is left at once; otherwise the fetch starts.
OC_DlEdit(h) ==
    /\ hs[h].pc = "oc_dl_edit"
    /\ \E o \in Outcomes :
        IF o = "ok"
        THEN /\ StartExtract(h, "oc_fetch", hs[h].url, hs[h].dir)
             /\ fetches' = [fetches EXCEPT ![hs[h].dir] = @ + 1]
        ELSE /\ Set(h, Idle)
             /\ fetches' = fetches
    /\ UNCHANGED <<nextDir, nSel, regOps, dl, fn>>
    /\ UnchangedRegistry /\ UnchangedDisk

\* finally: tmpdir.cleanup(), and the handler is over.
Finally(h) ==
    /\ cleanups' = Cleanup(cleanups, {hs[h].dir})
    /\ Set(h, Idle)

\* The fetch returned.  It raised: the except block awaits its edit.  No
\* info: await the "no data" edit.  Otherwise pick_filename_from_dir lists
\* the scratch directory (raising if it is gone): no file, await the "not
\* found" edit; a file, await _send_with_retries_as_video_or_doc.
OC_Fetched(h) ==
    /\ hs[h].pc = "oc_fetch" /\ hs[h].tpc = "ret"
    /\ LET d == hs[h].dir
           p == CASE hs[h].res = "raise" -> "oc_except_edit"
                  [] hs[h].res = "none" -> "oc_nodata_edit"
                  [] OTHER -> IF ~Exists(d) THEN "oc_except_edit"
                              ELSE IF FilesIn(d) = {} THEN "oc_nofile_edit"
                              ELSE "oc_deliver"
       IN  Set(h, [hs[h] EXCEPT !.pc = p, !.tpc = "none", !.res = "none",
                                !.saved = 0])
    /\ UNCHANGED <<nextDir, nSel>>
    /\ UnchangedRegistry /\ UnchangedDisk /\ UnchangedHistory

\* A failure edit inside the try returned: return through finally.  It
\* raised: the outer except block awaits its own edit.
OC_FailEdit(h) ==
    /\ hs[h].pc \in {"oc_nodata_edit", "oc_nofile_edit", "oc_sendfail_edit"}
    /\ \E o \in Outcomes :
        IF o = "ok"
        THEN Finally(h)
        ELSE Goto(h, "oc_except_edit") /\ UNCHANGED cleanups
    /\ UNCHANGED <<cwd, written, nextDir, nSel, fetches, regOps, dl, fn>>
    /\ UnchangedRegistry

\* The edit of the outer except block: its own failure is swallowed.
OC_ExceptEdit(h) ==
    /\ hs[h].pc = "oc_except_edit"
    /\ Finally(h)
    /\ UNCHANGED <<cwd, written, nextDir, nSel, fetches, regOps, dl, fn>>
    /\ UnchangedRegistry

\* await _send_with_retries_as_video_or_doc(query.message, file_path, caption)
\* is over: the procedure returned (the file was sent) or raised.  It reads
\* the file and sends messages; it touches neither the registry nor a
\* scratch directory's lifetime.
OC_Delivered(h) ==
    /\ hs[h].pc = "oc_deliver"
    /\ \E o \in Outcomes :
        Goto(h, IF o = "ok" THEN "oc_done_edit" ELSE "oc_sendfail_edit")
    /\ UNCHANGED <<nextDir, nSel>>
    /\ UnchangedRegistry /\ UnchangedDisk /\ UnchangedHistory

\* The "done" edit returned: return through finally.  It raised: the inner
\* except block awaits the "could not send" edit.
OC_DoneEdit(h) ==
    /\ hs[h].pc = "oc_done_edit"
    /\ \E o \in Outcomes :
        IF o = "ok"
        THEN Finally(h)
        ELSE Goto(h, "oc_sendfail_edit") /\ UNCHANGED cleanups
    /\ UNCHANGED <<cwd, written, nextDir, nSel, fetches, regOps, dl, fn>>
    /\ UnchangedRegistry

----------------------------------------------------------------------------

\* One resumption of task h.
Step(h) ==
    \/ HT_Start(h)
    \/ HT_NoUrl(h)
    \/ HT_Status(h)
    \/ HT_Probed(h)
    \/ HT_NoInfoEdit(h)
    \/ HT_MenuEdit(h)
    \/ HT_ExceptEdit(h)
    \/ T_getcwd(h)
    \/ T_chdir(h)
    \/ T_extract(h)
    \/ T_restore(h)
    \/ OC_Start(h)
    \/ OC_Answered(h)
    \/ OC_Rejected(h)
    \/ OC_DlEdit(h)
    \/ OC_Fetched(h)
    \/ OC_FailEdit(h)
    \/ OC_ExceptEdit(h)
    \/ OC_Delivered(h)
    \/ OC_DoneEdit(h)

\* Handler tasks interleave at their awaits and executor threads run in
\* parallel.
Next == \E h \in Handlers : Step(h)

Spec == Init /\ [][Next]_vars

\* Updates handled one at a time: a task runs only while no other task is in
\* progress (an Application that does not process updates concurrently).
NextSeq ==
    \E h \in Handlers :
        /\ \A g \in Handlers \ {h} : hs[g].pc = "idle"
        /\ Step(h)

SpecSeq == Init /\ [][NextSeq]_vars

----------------------------------------------------------------------------
(* Properties *)

\* C1: no scratch directory has cleanup() called on it more than once,
\* whatever the sequence of message and selection events.
C1_ReleasedAtMostOnce == \A d \in DOMAIN cleanups : cleanups[d] <= 1

\* A selection task that holds a job taken from the registry.
HoldsJob(h) ==
    hs[h].pc \in {"oc_dl_edit", "oc_fetch", "oc_nodata_edit", "oc_nofile_edit",
                  "oc_deliver", "oc_done_edit", "oc_sendfail_edit", "oc_except_edit"}

\* C2: whenever on_download_choice exits after having taken a job, the job's
\* scratch directory has been released.
C2_ReleasedOnEveryExit ==
    [][\A h \in Handlers :
          (HoldsJob(h) /\ hs'[h].pc = "idle") => cleanups'[hs[h].dir] >= 1]_vars

\* A step of handle_text on the path of a probe that raised or returned
\* nothing.
ProbeFailedStep(h) ==
    /\ hs'[h] # hs[h]
    /\ \/ hs[h].pc = "ht_probe" /\ hs[h].tpc = "ret" /\ hs[h].res # "info"
       \/ hs[h].pc \in {"ht_noinfo_edit", "ht_except_edit"} /\ hs[h].tok = 0

\* C3: after a failed probe handle_text leaves the registry as it is, and
\* when it exits the scratch directory has been released and belongs to no
\* registered job, also when an error edit fails.
C3_FailedProbeReleases ==
    [][\A h \in Handlers :
          ProbeFailedStep(h) =>
              /\ store' = store
              /\ hs'[h].pc = "idle" =>
                    /\ cleanups'[hs[h].dir] >= 1
                    /\ hs[h].dir \notin JobDirs(store')]_vars

\* C4: at the end of every store_new_job and pop_job call the registry holds
\* at most 50 jobs.
C4_AtMostMaxJobs == Len(store) <= MAX_JOBS

\* C4 witness: the registry is full after the eviction loop has run.
C4_Witness == Len(store) = MAX_JOBS /\ evicted # {}

\* C5: after C + k insertions and no take, exactly C jobs are live, the
\* evicted jobs are the k oldest, each evicted job was released exactly once
\* and no surviving job was released.
C5_EvictsOldest ==
    LET n == Len(inserted) IN
    (taken = {} /\ n >= MAX_JOBS) =>
        /\ Len(store) = MAX_JOBS
        /\ evicted = {inserted[i] : i \in 1..(n - MAX_JOBS)}
        /\ JobDirs(store) = {inserted[i] : i \in (n - MAX_JOBS + 1)..n}
        /\ \A d \in evicted : cleanups[d] = 1
        /\ \A d \in JobDirs(store) : cleanups[d] = 0

\* C6: store_new_job never assigns a key that is already in the registry, so
\* no live job is overwritten or dropped by the creation of another.
C6_NeverOverwrites == overwritten = {}

\* C7: a take of a token that was taken successfully before signals absence,
\* and no job has more than one fetch started.
C7_SecondTakeAbsent ==
    [][/\ \A h \in Handlers :
            (hs[h].pc = "oc_answer" /\ hs'[h].pc = "oc_dl_edit")
                => hs'[h].tok \notin taken
       /\ \A d \in DOMAIN fetches : fetches'[d] <= 1]_vars

\* The token field of a payload that passes the shape test.
PayloadToken(fields) == Split(fields, 2)[2][1]

\* C8: a selection whose token is not in the registry goes to the expiry
\* message only: the registry is unchanged, nothing is released, no fetch is
\* started, nothing is written.
C8_AbsentTokenOnlyExpiry ==
    [][\A h \in Handlers :
          /\ ( /\ hs[h].pc = "oc_answer" /\ hs'[h] # hs[h]
               /\ ~Malformed(Split(hs[h].data, 2))
               /\ PayloadToken(hs[h].data) \notin Keys(store) )
             => /\ hs'[h].pc \in {"oc_expired_edit", "idle"}
                /\ UNCHANGED <<store, cleanups, fetches, written, cwd>>
          /\ (hs[h].pc = "oc_expired_edit" /\ hs'[h] # hs[h])
             => /\ hs'[h].pc = "idle"
                /\ UNCHANGED <<store, cleanups, fetches, written, cwd>>]_vars

\* C8 witness: a selection is being told its token expired, the token having
\* been taken by an earlier selection.
C8_Witness ==
    \E h \in Handlers :
        /\ hs[h].pc = "oc_expired_edit"
        /\ hs[h].tok \in taken
        /\ hs[h].tok \notin Keys(store)

\* The shape "dl" | token | mode: exactly three fields, the first being "dl".
WellShaped(fields) == Len(fields) = 3 /\ fields[1] = "dl"

\* C9: a payload that is not of the shape "dl" | token | mode is answered
\* with the invalid-data message and changes nothing.
C9_MalformedRejected ==
    [][\A h \in Handlers :
          (hs[h].pc = "oc_answer" /\ hs'[h] # hs[h] /\ ~WellShaped(hs[h].data))
             => /\ hs'[h].pc \in {"oc_invalid_edit", "idle"}
                /\ UNCHANGED <<store, cleanups, fetches, written, cwd>>]_vars

\* C10: a download is written into its own job's scratch directory only, and
\* once no extraction call is running the working directory is the original.
C10_ExtractionContained ==
    /\ \A d \in DOMAIN written : written[d] \in {NoDir, d}
    /\ (\A h \in Handlers : hs[h].tpc \in {"none", "ret"}) => cwd = OrigCwd

----------------------------------------------------------------------------
(* Delivery procedure: _send_with_retries_as_video_or_doc and its caller *)

\* range(3) in both loops; the last index is the one the handlers test for.
Attempts == 3
LastAttempt == 2
BackoffFactor == 2

\* What one send attempt can do: reply_* returns, raises TimedOut, raises
\* another error, or file_path.open raises before anything is sent.
SendOutcomes == {"ok", "timeout", "other", "open_failed"}

\* asyncio.sleep(2 * (attempt + 1))
Backoff_from_zero(attempt) == BackoffFactor * attempt

Backoff(attempt) == BackoffFactor * (attempt + 1)

\* Where the video loop goes after an attempt: return, sleep, or break.
VideoAfter_reraises(o, attempt) ==
    IF o = "ok" THEN "returned"
    ELSE IF o = "timeout"
         THEN IF attempt = LastAttempt THEN "doc" ELSE "video_sleep"
         ELSE "raised"

VideoAfter(o, attempt) ==
    IF o = "ok" THEN "returned"
    ELSE IF o = "timeout"
         THEN IF attempt = LastAttempt THEN "doc" ELSE "video_sleep"
         ELSE "doc"

\* Where the document loop goes after an attempt: return, sleep, or raise.
\* Only TimedOut is handled; any other exception leaves the function.
DocAfter_keeps_retrying(o, attempt) ==
    IF o = "ok" THEN "returned"
    ELSE IF o = "timeout" THEN "doc_sleep"
         ELSE "raised"

DocAfter_swallows_other(o, attempt) ==
    IF o = "ok" THEN "returned"
    ELSE IF o = "timeout"
         THEN IF attempt = LastAttempt THEN "raised" ELSE "doc_sleep"
         ELSE "end"

DocAfter(o, attempt) ==
    IF o = "ok" THEN "returned"
    ELSE IF o = "timeout"
         THEN IF attempt = LastAttempt THEN "raised" ELSE "doc_sleep"
         ELSE "raised"

Entry(kind, n, out) == [kind |-> kind, n |-> n, out |-> out]

DInit ==
    /\ store = <<>>
    /\ cleanups = [d \in Dirs |-> 0]
    /\ cwd = OrigCwd
    /\ written = [d \in Dirs |-> NoDir]
    /\ hs = [h \in Handlers |-> Idle]
    /\ nextDir = 1
    /\ nSel = 0
    /\ inserted = <<>>
    /\ evicted = {}
    /\ overwritten = {}
    /\ taken = {}
    /\ fetches = [d \in Dirs |-> 0]
    /\ regOps = 0
    /\ dl = [pc |-> "send_action", attempt |-> 0, log |-> <<>>, exc |-> "none"]
    /\ fn = NoInput

UnchangedButDl ==
    UNCHANGED <<store, cleanups, cwd, written, hs, nextDir, nSel, inserted,
                evicted, overwritten, taken, fetches, regOps, fn>>

\* send_action(UPLOAD_VIDEO): whatever it raises is swallowed; the video loop
\* starts at attempt 0.
DL_Action ==
    /\ dl.pc = "send_action"
    /\ \E o \in Outcomes :
         dl' = [dl EXCEPT !.pc = "video", !.attempt = 0,
                          !.log = Append(@, Entry("action", 0, o))]
    /\ UnchangedButDl

\* One pass of the video loop body up to its next await.
DL_Video ==
    /\ dl.pc = "video"
    /\ \E o \in SendOutcomes :
         LET to == VideoAfter(o, dl.attempt) IN
         dl' = [dl EXCEPT !.pc = to,
                          !.attempt = IF to = "doc" THEN 0 ELSE @,
                          !.exc = IF to = "raised" THEN o ELSE @,
                          !.log = Append(@, Entry("video", dl.attempt + 1, o))]
    /\ UnchangedButDl

\* One pass of the document loop body up to its next await.
DL_Doc ==
    /\ dl.pc = "doc"
    /\ \E o \in SendOutcomes :
         LET to == DocAfter(o, dl.attempt) IN
         dl' = [dl EXCEPT !.pc = to,
                          !.exc = IF to = "raised" THEN o ELSE @,
                          !.log = Append(@, Entry("doc", dl.attempt + 1, o))]
    /\ UnchangedButDl

\* asyncio.sleep returns and the for statement takes the next index; when
\* range(3) is exhausted the video loop is followed by the document loop and
\* the document loop by the end of the function.
DL_Sleep ==
    /\ dl.pc \in {"video_sleep", "doc_sleep"}
    /\ LET more == dl.attempt + 1 < Attempts
           loop == IF dl.pc = "video_sleep" THEN "video" ELSE "doc"
           after == IF dl.pc = "video_sleep" THEN "doc" ELSE "end" IN
       dl' = [dl EXCEPT !.pc = IF more THEN loop ELSE after,
                        !.attempt = IF more THEN @ + 1 ELSE 0,
                        !.log = Append(@, Entry("sleep", Backoff(dl.attempt), "ok"))]
    /\ UnchangedButDl

\* The caller: "Готово" after the call came back, the send-failure text
\* after it raised.
DL_Report ==
    /\ dl.pc \in {"returned", "end", "raised"}
    /\ dl' = [dl EXCEPT !.pc = IF dl.pc = "raised" THEN "sendfail_edit"
                                                   ELSE "done_edit"]
    /\ UnchangedButDl

DNext == DL_Action \/ DL_Video \/ DL_Doc \/ DL_Sleep \/ DL_Report

\* Every await of the procedure ends: the requests carry timeouts and the
\* event loop resumes a task whose awaited call has completed.
SpecDelivery == DInit /\ [][DNext]_vars /\ WF_vars(DNext)

IsSend(e) == e.kind \in {"video", "doc"}

Count(kind) == Cardinality({i \in 1..Len(dl.log) : dl.log[i].kind = kind})

\* C11: a video attempt that fails with anything but a timeout, whichever
\* attempt it is, is not raised to the caller and is not followed by a
\* sleep: the procedure is at the first document attempt, and the next
\* logged event is that attempt.
C11_NonTimeoutFallsToDoc ==
    \A i \in 1..Len(dl.log) :
        (dl.log[i].kind = "video" /\ dl.log[i].out \in {"other", "open_failed"})
        => IF i = Len(dl.log)
           THEN dl.pc = "doc" /\ dl.attempt = 0 /\ dl.exc = "none"
           ELSE dl.log[i + 1].kind = "doc" /\ dl.log[i + 1].n = 1

\* Two timeouts, then a non-timeout failure on the third video attempt, and
\* the document attempt that follows it.
C11_Witness ==
    \E i \in 1..Len(dl.log) :
        /\ dl.log[i] = Entry("video", 3, "other")
        /\ i < Len(dl.log)
        /\ dl.log[i + 1].kind = "doc"

C12_Bounded ==
    /\ Count("video") <= 3
    /\ Count("doc") <= 3
    /\ Count("video") + Count("doc") <= 6
    /\ \A i, j \in 1..Len(dl.log) :
           (i < j /\ dl.log[i].kind = "doc") => dl.log[j].kind # "video"
    /\ \A i \in 1..Len(dl.log) :
           /\ dl.log[i] = Entry("video", 3, "timeout")
              => IF i = Len(dl.log) THEN dl.pc = "doc" /\ dl.attempt = 0
                 ELSE dl.log[i + 1].kind = "doc"
           /\ dl.log[i] = Entry("doc", 3, "timeout")
              => /\ i = Len(dl.log)
                 /\ dl.pc \in {"raised", "sendfail_edit"}
                 /\ dl.exc = "timeout"

Terminated == dl.pc \in {"returned", "end", "raised", "done_edit", "sendfail_edit"}

\* C12: whatever the attempts do, there are at most three video attempts,
\* then at most three document attempts, never a video attempt after a
\* document attempt; a third video timeout leads to the document attempts,
\* a third document timeout is raised to the caller; and the procedure
\* comes to an end.
C12_AttemptsBoundedAndEnds == []C12_Bounded /\ <>Terminated

\* Six attempts, all timed out.
C12_Witness ==
    /\ Count("video") = 3
    /\ Count("doc") = 3
    /\ dl.pc = "raised"
    /\ dl.exc = "timeout"

\* C17: every sleep comes directly after a timed-out attempt that was the
\* first or second of its loop, video or document, and lasts twice that
\* attempt's number in seconds (2 after the first, 4 after the second); no
\* sleep follows a third attempt, a success or a non-timeout failure.
C17_BackoffOnlyAfterTimeout ==
    \A i \in 1..Len(dl.log) :
        dl.log[i].kind = "sleep"
        => /\ i > 1
           /\ IsSend(dl.log[i - 1])
           /\ dl.log[i - 1].out = "timeout"
           /\ dl.log[i - 1].n \in {1, 2}
           /\ dl.log[i].n = 2 * dl.log[i - 1].n

\* A 2 s sleep in the video loop and a 4 s sleep in the document loop.
C17_Witness ==
    \E i, j \in 1..Len(dl.log) :
        /\ i > 1 /\ j > 1
        /\ dl.log[i] = Entry("sleep", 2, "ok") /\ dl.log[i - 1].kind = "video"
        /\ dl.log[j] = Entry("sleep", 4, "ok") /\ dl.log[j - 1].kind = "doc"

Sent == \E i \in 1..Len(dl.log) : IsSend(dl.log[i]) /\ dl.log[i].out = "ok"

\* C20: the procedure comes back to its caller without an exception, and
\* the caller shows the success text, only when a video or document attempt
\* succeeded; it never reaches the end of the function body; a document
\* attempt failing with a non-timeout error is the last attempt and is
\* raised, and so is a third document timeout.
C20_ReturnsOnlyAfterSend ==
    /\ dl.pc # "end"
    /\ dl.pc \in {"returned", "done_edit"} => Sent
    /\ (Terminated /\ ~Sent) => dl.pc \in {"raised", "sendfail_edit"}
    /\ \A i \in 1..Len(dl.log) :
           (/\ dl.log[i].kind = "doc"
            /\ \/ dl.log[i].out \in {"other", "open_failed"}
               \/ dl.log[i].out = "timeout" /\ dl.log[i].n = 3)
           => /\ i = Len(dl.log)
              /\ dl.pc \in {"raised", "sendfail_edit"}
              /\ dl.exc = dl.log[i].out

\* A first document attempt failing with a non-timeout error, reported to
\* the user as a send failure without a second attempt.
C20_Witness ==
    /\ dl.pc = "sendfail_edit"
    /\ dl.exc = "other"
    /\ Count("doc") = 1

----------------------------------------------------------------------------
(* Menu and format construction: unique_sorted_heights, the keyboard built
   by handle_text, the mode parsing of on_download_choice and
   build_format_string *)

MaxFormats == 4

\* f.get("height") of one stream descriptor: an int, or something that is
\* not an int (None when the key is missing, a float or a string otherwise).
Missing == [int |-> FALSE, v |-> 0]
NotAnInt == [int |-> FALSE, v |-> 720]
IntHeights == {144, 240, 250, 300, 540, 600, 720}
HeightValues == {Missing, NotAnInt} \cup {[int |-> TRUE, v |-> n] : n \in IntHeights}

FormatLists == UNION {[1..n -> HeightValues] : n \in 0..MaxFormats}

Range(s) == {s[i] : i \in DOMAIN s}

RECURSIVE SortAsc(_)
\* list.sort() on a list of distinct ints
SortAsc(S) ==
    IF S = {} THEN <<>>
    ELSE LET m == CHOOSE x \in S : \A y \in S : x <= y
         IN  <<m>> \o SortAsc(S \ {m})

unique_sorted_heights_above_240(formats) ==
    LET heights == {formats[i].v : i \in {k \in DOMAIN formats : formats[k].int}}
    IN  SortAsc({h \in heights : h # 0 /\ h > 240})

unique_sorted_heights(formats) ==
    LET heights == {formats[i].v : i \in {k \in DOMAIN formats : formats[k].int}}
    IN  SortAsc({h \in heights : h # 0 /\ h >= 240})

wanted == <<240, 360, 480, 720, 1080, 1440, 2160>>

\* Mutant: the fallback takes the three lowest heights.
display_heights_lowest(heights) ==
    LET d == SelectSeq(wanted, LAMBDA h : h \in Range(heights))
    IN  IF d # <<>> THEN d
        ELSE IF Len(heights) > 3 THEN SubSeq(heights, 1, 3)
             ELSE heights

display_heights(heights) ==
    LET d == SelectSeq(wanted, LAMBDA h : h \in Range(heights))
    IN  IF d # <<>> THEN d
        ELSE IF Len(heights) > 3
             THEN SubSeq(heights, Len(heights) - 2, Len(heights))
             ELSE heights

\* callback_data "dl|<token>|h<h>" and "dl|<token>|best", kept as fields.
HeightButton(token, h) == [token |-> token, mode |-> "h", n |-> h]
BestButton(token) == [token |-> token, mode |-> "best", n |-> 0]

RECURSIVE Rows(_, _, _)
\* The loop over display_heights: a row is closed when it holds 3 buttons,
\* a shorter last row is added after the loop.
Rows(display, token, row) ==
    IF display = <<>>
    THEN IF row # <<>> THEN <<row>> ELSE <<>>
    ELSE LET r == Append(row, HeightButton(token, Head(display)))
         IN  IF Len(r) = 3
             THEN <<r>> \o Rows(Tail(display), token, <<>>)
             ELSE Rows(Tail(display), token, r)

Keyboard(heights, token) ==
    Append(Rows(display_heights(heights), token, <<>>), <<BestButton(token)>>)

FnInit ==
    /\ store = <<>>
    /\ cleanups = [d \in Dirs |-> 0]
    /\ cwd = OrigCwd
    /\ written = [d \in Dirs |-> NoDir]
    /\ hs = [h \in Handlers |-> Idle]
    /\ nextDir = 1
    /\ nSel = 0
    /\ inserted = <<>>
    /\ evicted = {}
    /\ overwritten = {}
    /\ taken = {}
    /\ fetches = [d \in Dirs |-> 0]
    /\ regOps = 0
    /\ dl = NoDelivery
    /\ \E f \in FormatLists : fn = [phase |-> "probed", formats |-> f]

\* handle_text from the probe result to the keyboard: heights, registration
\* of the job under the token the generator returned, buttons.
FN_Menu ==
    /\ fn.phase = "probed"
    /\ \E token \in Tokens :
         LET heights == unique_sorted_heights(fn.formats)
             r == store_new_job(store, token, [url |-> 1, tmpdir |-> 1], Capacity)
         IN  /\ store' = r.store
             /\ fn' = [phase |-> "menu", formats |-> fn.formats,
                       heights |-> heights, token |-> token,
                       buttons |-> Keyboard(heights, token)]
    /\ UNCHANGED <<cleanups, cwd, written, hs, nextDir, nSel, inserted, evicted,
                   overwritten, taken, fetches, regOps, dl>>

\* The mode field of a selection payload, character by character.
ModeInputs ==
    { <<"b", "e", "s", "t">>, <<"h", "7", "2", "0">>, <<"h", "4", "8", "0">>,
      <<"h", "0", "7">>, <<"h", "0">>, <<"h">>, <<"h", "x">>, <<"h", "-", "5">>,
      <<"x", "7", "2", "0">> }

DigitChars == <<"0", "1", "2", "3", "4", "5", "6", "7", "8", "9">>

IsDigit(c) == \E i \in DOMAIN DigitChars : DigitChars[i] = c

DigitVal(c) == (CHOOSE i \in DOMAIN DigitChars : DigitChars[i] = c) - 1

RECURSIVE Decimal(_)
Decimal(cs) ==
    IF cs = <<>> THEN 0
    ELSE 10 * Decimal(SubSeq(cs, 1, Len(cs) - 1)) + DigitVal(cs[Len(cs)])

\* None, or an int.
NoHeight == [none |-> TRUE, v |-> 0]
Height(n) == [none |-> FALSE, v |-> n]

\* int(s) for a sign followed by decimal digits; ValueError is None in the
\* caller.
ParseInt(cs) ==
    LET signed == cs # <<>> /\ cs[1] \in {"-", "+"}
        ds == IF signed THEN Tail(cs) ELSE cs
    IN  IF ds = <<>> \/ \E i \in DOMAIN ds : ~IsDigit(ds[i])
        THEN NoHeight
        ELSE Height(IF signed /\ cs[1] = "-" THEN 0 - Decimal(ds) ELSE Decimal(ds))

ChosenHeight(mode) ==
    IF mode = <<"b", "e", "s", "t">> THEN NoHeight
    ELSE IF mode # <<>> /\ mode[1] = "h" THEN ParseInt(Tail(mode))
         ELSE NoHeight

\* One stream selector of a format expression: its name and its filter
\* "[height<=?N]" (max = 0: no filter).
Selector(name, max) == [sel |-> name, max |-> max]

\* The expression as yt-dlp reads it: alternatives separated by "/", each a
\* list of selectors merged with "+".
\* Mutant: the fallback alternative carries no height filter.
build_format_string_plain_fallback(height) ==
    IF height.none \/ height.v = 0
    THEN << <<Selector("bestvideo*", 0), Selector("bestaudio", 0)>>,
            <<Selector("best", 0)>> >>
    ELSE << <<Selector("bestvideo*", height.v), Selector("bestaudio", 0)>>,
            <<Selector("best", 0)>> >>

build_format_string(height) ==
    IF height.none \/ height.v = 0
    THEN << <<Selector("bestvideo*", 0), Selector("bestaudio", 0)>>,
            <<Selector("best", 0)>> >>
    ELSE << <<Selector("bestvideo*", height.v), Selector("bestaudio", 0)>>,
            <<Selector("best", height.v)>> >>

\* on_download_choice from the mode field to the fmt argument of the fetch.
FN_Format ==
    /\ fn.phase = "probed"
    /\ \E mode \in ModeInputs :
         LET chosen_height == ChosenHeight(mode)
         IN  fn' = [phase |-> "format", mode |-> mode,
                    chosen_height |-> chosen_height,
                    fmt |-> build_format_string(chosen_height)]
    /\ UNCHANGED <<store, cleanups, cwd, written, hs, nextDir, nSel, inserted,
                   evicted, overwritten, taken, fetches, regOps, dl>>

FnNext == FN_Menu \/ FN_Format

SpecMenu == FnInit /\ [][FnNext]_vars

\* The stream descriptors with two neighbours exchanged.
Swap(s, i) == [s EXCEPT ![i] = s[i + 1], ![i + 1] = s[i]]

IsAscending(s) == \A i \in 1..(Len(s) - 1) : s[i] < s[i + 1]

\* C13: the heights computed from the stream descriptors are strictly
\* ascending (so distinct), are exactly the int heights >= 240 of the input,
\* descriptors whose height is missing or not an int adding nothing, and do
\* not change when two neighbouring descriptors are exchanged (every
\* permutation is a product of such exchanges, and every list up to the
\* bound is an input).
C13_HeightsDistinctSorted ==
    fn.phase = "menu" =>
        /\ IsAscending(fn.heights)
        /\ Range(fn.heights)
           = {n \in IntHeights : /\ n >= 240
                                 /\ \E i \in DOMAIN fn.formats :
                                       fn.formats[i] = [int |-> TRUE, v |-> n]}
        /\ \A i \in 1..(Len(fn.formats) - 1) :
               unique_sorted_heights(Swap(fn.formats, i)) = fn.heights

\* 720 before 240 twice, a too small height and a non-int height in between.
C13_Witness ==
    /\ fn.phase = "menu"
    /\ Len(fn.formats) = 4
    /\ fn.formats[1] = [int |-> TRUE, v |-> 720]
    /\ fn.formats[2] = [int |-> TRUE, v |-> 240]
    /\ fn.formats[3] = [int |-> TRUE, v |-> 240]
    /\ fn.formats[4] \in {NotAnInt, [int |-> TRUE, v |-> 144]}
    /\ fn.heights = <<240, 720>>

RECURSIVE Flat(_)
\* The buttons of a keyboard, row after row.
Flat(rows) == IF rows = <<>> THEN <<>> ELSE Head(rows) \o Flat(Tail(rows))

Preferred == {240, 360, 480, 720, 1080, 1440, 2160}

\* C14: the keyboard ends with the one "best" button, every button before
\* it is a height button, every button carries the token the job was
\* registered under; the heights shown are the candidates of the preferred
\* list in that list's (ascending) order, or, when no candidate is in the
\* list, the three greatest candidates in ascending order, all of them when
\* there are three or fewer, none when there is none.
C14_MenuPolicy ==
    fn.phase = "menu" =>
        LET b == Flat(fn.buttons)
            n == Len(b)
            shown == [i \in 1..(n - 1) |-> b[i].n]
            cand == Range(fn.heights)
        IN  /\ n >= 1
            /\ b[n] = [token |-> fn.token, mode |-> "best", n |-> 0]
            /\ \A i \in 1..(n - 1) : b[i].mode = "h" /\ b[i].token = fn.token
            /\ fn.token \in Keys(store)
            /\ IsAscending(shown)
            /\ IF cand \cap Preferred # {}
               THEN Range(shown) = cand \cap Preferred
               ELSE /\ Range(shown) \subseteq cand
                    /\ Len(shown) = IF Len(fn.heights) > 3 THEN 3 ELSE Len(fn.heights)
                    /\ \A x \in cand \ Range(shown) : \A y \in Range(shown) : x < y

\* Four candidates outside the preferred list: the three greatest are shown.
C14_Witness ==
    /\ fn.phase = "menu"
    /\ fn.heights = <<250, 300, 540, 600>>
    /\ Len(Flat(fn.buttons)) = 4
    /\ Flat(fn.buttons)[1].n = 300

\* The mode is "h" followed by the decimal digits of a positive integer.
IsHeightMode(mode) ==
    /\ Len(mode) > 1
    /\ mode[1] = "h"
    /\ \A i \in 2..Len(mode) : IsDigit(mode[i])
    /\ Decimal(Tail(mode)) > 0

Unconstrained ==
    << <<Selector("bestvideo*", 0), Selector("bestaudio", 0)>>, <<Selector("best", 0)>> >>

\* C15 as stated: mode "best" gives the unconstrained video+audio
\* expression; mode "h"+N gives an expression in which the video and the
\* audio selector are both limited to height <= N and the fallback
\* alternative is "best" without a limit.
C15_BothStreamsConstrained ==
    fn.phase = "format" =>
        /\ fn.mode = <<"b", "e", "s", "t">> => fn.fmt = Unconstrained
        /\ IsHeightMode(fn.mode)
           => LET N == Decimal(Tail(fn.mode))
              IN  /\ \A i \in DOMAIN fn.fmt[1] : fn.fmt[1][i].max = N
                  /\ fn.fmt[2] = <<Selector("best", 0)>>

\* C15 amended: mode "best" gives the unconstrained video+audio
\* expression; mode "h"+N gives an expression whose first alternative is
\* the best video limited to height <= N merged with the best audio without
\* a limit, and whose fallback alternative is "best" limited to height <= N.
C15_VideoAndFallbackConstrained ==
    fn.phase = "format" =>
        /\ fn.mode = <<"b", "e", "s", "t">> => fn.fmt = Unconstrained
        /\ IsHeightMode(fn.mode)
           => LET N == Decimal(Tail(fn.mode))
              IN  /\ fn.fmt[1] = <<Selector("bestvideo*", N), Selector("bestaudio", 0)>>
                  /\ fn.fmt[2] = <<Selector("best", N)>>
                  /\ Len(fn.fmt) = 2

C15_Witness ==
    /\ fn.phase = "format"
    /\ fn.mode = <<"h", "7", "2", "0">>
    /\ fn.chosen_height = Height(720)
    /\ fn.fmt[2] = <<Selector("best", 720)>>

----------------------------------------------------------------------------
(* Handler-level properties of the job lifecycle *)

\* Task h arrives at position p in this step.
Arrives(h, p) == hs'[h].pc = p /\ hs[h].pc # p

\* C16: a job is registered, and its menu edit awaited, only when its probe
\* returned a result, under the probe's url and scratch directory; a job is
\* taken only from the registry entry of the payload's token; the fetch
\* starts only after the take and the "downloading" edit, with the url and
\* the directory of the entry taken and without a new directory being
\* created; the delivery is awaited only after the fetch returned a result
\* and the directory listing showed a file; the success text is edited in
\* only after the delivery returned.
C16_LifecycleOrder ==
    [][\A h \in Handlers :
          /\ Arrives(h, "ht_menu_edit")
             => /\ hs[h].pc = "ht_probe" /\ hs[h].tpc = "ret" /\ hs[h].res = "info"
                /\ \E i \in 1..Len(store') :
                       store'[i] = [token |-> hs'[h].tok, url |-> hs[h].url,
                                    tmpdir |-> hs[h].dir]
          /\ Arrives(h, "oc_dl_edit")
             => /\ hs[h].pc = "oc_answer"
                /\ \E i \in 1..Len(store) :
                       store[i] = [token |-> hs'[h].tok, url |-> hs'[h].url,
                                   tmpdir |-> hs'[h].dir]
                /\ hs'[h].tok \notin Keys(store')
          /\ Arrives(h, "oc_fetch")
             => /\ hs[h].pc = "oc_dl_edit"
                /\ hs[h].tok \in taken
                /\ hs'[h].url = hs[h].url /\ hs'[h].dir = hs[h].dir
                /\ hs'[h].url = hs'[h].dir
                /\ nextDir' = nextDir
          /\ Arrives(h, "oc_deliver")
             => /\ hs[h].pc = "oc_fetch" /\ hs[h].tpc = "ret" /\ hs[h].res = "info"
                /\ FilesIn(hs[h].dir) # {}
          /\ Arrives(h, "oc_done_edit") => hs[h].pc = "oc_deliver"
          /\ (HoldsJob(h) /\ hs'[h].pc = "idle")
             => hs[h].pc \in {"oc_dl_edit", "oc_nodata_edit", "oc_nofile_edit",
                              "oc_done_edit", "oc_sendfail_edit", "oc_except_edit"}
      ]_vars

\* A selection handler awaiting the success edit of the second job.
C16_Witness ==
    \E h \in Handlers : hs[h].pc = "oc_done_edit" /\ hs[h].dir = 2 /\ hs[h].url = 2

\* C18: the scratch directory of every job in the registry has not had
\* cleanup() called on it.
C18_RegisteredNotReleased ==
    \A i \in 1..Len(store) : cleanups[store[i].tmpdir] = 0

\* C19: while a selection handler holds a taken job, cleanup() is called on
\* that job's scratch directory only by the step in which this handler
\* leaves through its finally block, after its fetch and delivery.
C19_InProgressReleasedByOwner ==
    [][\A g \in Handlers :
          (HoldsJob(g) /\ cleanups'[hs[g].dir] # cleanups[hs[g].dir])
          => /\ hs'[g].pc = "idle"
             /\ hs[g].pc \in {"oc_nodata_edit", "oc_nofile_edit", "oc_done_edit",
                              "oc_sendfail_edit", "oc_except_edit"}]_vars

====
